---- MODULE Spec2Model ----
(***************************************************************************)
(* A model of the Sharktopoda client: the asynchronous client              *)
(* (SharktopodaClient over RxUDPServer, client.py) and the synchronous     *)
(* transport (UDPServer, udp.py).                                          *)
(*                                                                         *)
(* Threads: the receiver thread of RxUDPServer (the receive loop, which    *)
(* also runs every message handler, since Subject.on_next is synchronous), *)
(* and one calling context issuing client operations.  The peer and the    *)
(* network are the environment.                                            *)
(***************************************************************************)
EXTENDS Integers, Sequences, FiniteSets, TLC

\* ------------------------------------------------------------- bounds
MaxSent == 2      \* datagrams handed to the transport and not yet taken by the peer
MaxQueue == 2     \* datagrams waiting in the receive socket
MaxLocs == 2      \* localizations in one add / update / remove call
MaxLocSent == 1   \* as MaxSent, where the commands carry localizations
MaxLocQueue == 1  \* as MaxQueue, where the commands carry localizations

\* ------------------------------------------------------------- domains
Videos == {"v1", "v2"}
LocOrder == <<"l1", "l2">>
LocIds == {LocOrder[i] : i \in 1..Len(LocOrder)}
Concepts == {"a", "b"}
Ports == {7001}
Urls == {"file:///a.mp4"}

\* A Localization, by its identity and one payload field (the other fields
\* are carried through the working set the same way as concept).
Localization(id, c) == [uuid |-> id, concept |-> c]
Localizations == {Localization(id, c) : id \in LocIds, c \in Concepts}

\* Python dicts are functions on the set of their keys.
EmptyDict == [k \in {} |-> "none"]
DictSet(d, k, v) == [x \in DOMAIN d \cup {k} |-> IF x = k THEN v ELSE d[x]]
DictPop(d, k) == [x \in DOMAIN d \ {k} |-> d[x]]
DictUpdate(d, e) == [x \in DOMAIN d \cup DOMAIN e |-> IF x \in DOMAIN e THEN e[x] ELSE d[x]]

\* ------------------------------------------------------------- messages
\* An envelope: key is the discriminator key it carries ("command",
\* "response", or "none" when it carries neither); a field that is missing
\* from the JSON object is "none" (status, uuid), FALSE (cause), 0 (port) or
\* empty (url, locs, ids).
Msg(key, name, status, uuid, cause, port, url, locs, ids) ==
    [key |-> key, name |-> name, status |-> status, uuid |-> uuid,
     cause |-> cause, port |-> port, url |-> url, locs |-> locs, ids |-> ids]
Cmd(name, uuid) == Msg("command", name, "none", uuid, FALSE, 0, "", <<>>, <<>>)
Resp(name, status, uuid, cause) ==
    Msg("response", name, status, uuid, cause, 0, "", <<>>, <<>>)
NoMsg == Msg("none", "none", "none", "none", FALSE, 0, "", <<>>, <<>>)

\* A datagram in the receive socket: the host it came from, whether its
\* bytes decode as UTF-8 JSON, and the decoded envelope.
Datagram(host, m) == [host |-> host, wf |-> TRUE, msg |-> m]
Garbage(host) == [host |-> host, wf |-> FALSE, msg |-> NoMsg]

PingCommand == Cmd("ping", "none")
PingResponse == Resp("ping", "ok", "none", FALSE)

VARIABLES
    connected,                  \* SharktopodaClient._connected
    video_open_state,           \* ._video_open_state
    focused_video_info,         \* ._focused_video_info
    all_video_info,             \* ._all_video_info
    video_player_state,         \* ._video_player_state
    frame_captures,             \* ._frame_captures
    uncommitted_localizations,  \* ._uncommitted_localizations
    localizations,              \* ._localizations (the committed map)
    selected_localizations,     \* ._selected_localizations
    ok,                         \* RxUDPServer._ok
    socket,                     \* RxUDPServer._socket: "none", "bound", or "unbound" (created, bind failed)
    rpc,                        \* the receiver thread: "loop" (at the loop test), "recv" (in recvfrom) or "done"
    sent,                       \* datagrams handed to the transport, in flight to the peer
    rxq,                        \* datagrams waiting in the receive socket
    cpc,                        \* the calling context: idle, or inside an operation after its send
    raised,                     \* the exception the last client operation ended with
    usocket,                    \* UDPServer._socket: "none" or "bound"
    uresult,                    \* how the last UDPServer.receive ended
    codec                       \* a record value on its way through encode and decode

mirror == <<connected, video_open_state, focused_video_info, all_video_info,
            video_player_state, frame_captures, uncommitted_localizations,
            localizations, selected_localizations>>
transport == <<ok, socket, rpc>>
network == <<sent, rxq>>
caller == <<cpc, raised>>
sync == <<usocket, uresult>>
vars == <<mirror, transport, network, caller, sync, codec>>

\* How a UDPServer.receive ended: whether the wait ran out, the exception it
\* raised ("none" when it returned), and the envelope it returned.
Result(timed_out, exc, data) == [timed_out |-> timed_out, raised |-> exc, data |-> data]
NoResult == Result(FALSE, "none", NoMsg)

Idle == [op |-> "idle", uuid |-> "none", locs |-> <<>>, ids |-> <<>>]

\* No record value is being encoded or decoded.
NoCodec == [kind |-> "none", stage |-> "idle", value |-> "none",
            wire |-> "none", back |-> "none"]

Init ==
    /\ connected = FALSE
    /\ video_open_state = EmptyDict
    /\ focused_video_info = "none"
    /\ all_video_info = "none"
    /\ video_player_state = EmptyDict
    /\ frame_captures = <<>>
    /\ uncommitted_localizations = EmptyDict
    /\ localizations = EmptyDict
    /\ selected_localizations = EmptyDict
    /\ ok = TRUE
    /\ socket = "none"
    /\ rpc = "loop"
    /\ sent = <<>>
    /\ rxq = <<>>
    /\ cpc = Idle
    /\ raised = "none"
    /\ usocket = "none"
    /\ uresult = NoResult
    /\ codec = NoCodec

\* ------------------------------------------------------------- transport (RxUDPServer)
\* RxUDPServer.socket: the lazy getter creates and binds a socket when none exists.
socket_get(s) == IF s = "none" THEN "bound" ELSE s

\* RxUDPServer._send, reached synchronously from send_subject.on_next: the
\* datagram is sent on self.socket.
rx_send(m) ==
    /\ sent' = Append(sent, m)
    /\ socket' = socket_get(socket)

\* SharktopodaClient.send
send(m) == rx_send(m)

\* ------------------------------------------------------------- state mirror
\* _commit_localizations: dict.update merges uncommitted into committed.
commit_localizations ==
    /\ localizations' = DictUpdate(localizations, uncommitted_localizations)
    /\ UNCHANGED uncommitted_localizations

\* A revert that leaves out the clear.
revert_localizations_no_clear ==
    /\ uncommitted_localizations' = DictUpdate(uncommitted_localizations, localizations)
    /\ UNCHANGED localizations

\* A revert that copies in the wrong direction.
revert_localizations_into_committed ==
    /\ localizations' = DictUpdate(EmptyDict, uncommitted_localizations)
    /\ UNCHANGED uncommitted_localizations

\* _revert_localizations: clear, then update from committed.
revert_localizations ==
    /\ uncommitted_localizations' = DictUpdate(EmptyDict, localizations)
    /\ UNCHANGED localizations

noLocChange == UNCHANGED <<uncommitted_localizations, localizations>>
noMirrorButLocs ==
    UNCHANGED <<connected, video_open_state, focused_video_info, all_video_info,
                video_player_state, frame_captures, selected_localizations>>
noMirrorButOpen ==
    UNCHANGED <<connected, focused_video_info, all_video_info, video_player_state,
                frame_captures, uncommitted_localizations, localizations,
                selected_localizations>>

\* A ping handler that also takes the ping as proof of a live connection.
on_ping_command_marks_connected(command) ==
    /\ send(PingResponse)
    /\ connected' = TRUE
    /\ UNCHANGED <<video_open_state, focused_video_info, all_video_info,
                   video_player_state, frame_captures, uncommitted_localizations,
                   localizations, selected_localizations>>

\* _on_ping_command
on_ping_command(command) ==
    /\ send(PingResponse)
    /\ UNCHANGED mirror

\* A connect handler that does not look at the status.
on_connect_response_any_status(response) ==
    /\ connected' = TRUE
    /\ UNCHANGED <<video_open_state, focused_video_info, all_video_info,
                   video_player_state, frame_captures, uncommitted_localizations,
                   localizations, selected_localizations>>

\* _on_connect_response; the failure branch logs the response and reads no cause.
on_connect_response(response) ==
    /\ connected' = IF response.status = "ok" THEN TRUE ELSE connected
    /\ UNCHANGED <<video_open_state, focused_video_info, all_video_info,
                   video_player_state, frame_captures, uncommitted_localizations,
                   localizations, selected_localizations>>
on_connect_raises(response) == response.status = "none"

\* _on_open_response: nothing on success, a log line on failure.
on_open_response(response) == UNCHANGED mirror
on_open_raises(response) == response.status = "none"

\* An "open done" handler that does not look at the status.
on_open_done_response_any_status(response) ==
    /\ video_open_state' =
          IF response.uuid # "none"
          THEN DictSet(video_open_state, response.uuid, "OPEN")
          ELSE video_open_state
    /\ noMirrorButOpen

\* _on_open_done_response
on_open_done_response(response) ==
    /\ video_open_state' =
          IF response.status = "ok" /\ response.uuid # "none"
          THEN DictSet(video_open_state, response.uuid, "OPEN")
          ELSE video_open_state
    /\ noMirrorButOpen
\* the KeyErrors of response["status"], response["uuid"], response["cause"]
uuid_response_raises(response) ==
    \/ response.status = "none"
    \/ response.status = "ok" /\ response.uuid = "none"
    \/ response.status \notin {"ok", "none"} /\ ~response.cause

\* A close handler that assigns a new map holding only the closed video.
on_close_response_resets_map(response) ==
    /\ video_open_state' =
          IF response.status = "ok" /\ response.uuid # "none"
          THEN DictSet(EmptyDict, response.uuid, "CLOSED")
          ELSE video_open_state
    /\ noMirrorButOpen

\* _on_close_response
on_close_response(response) ==
    /\ video_open_state' =
          IF response.status = "ok" /\ response.uuid # "none"
          THEN DictSet(video_open_state, response.uuid, "CLOSED")
          ELSE video_open_state
    /\ noMirrorButOpen

\* _on_show_response, _on_play_response, _on_pause_response,
\* _on_seek_elapsed_time_response, _on_frame_advance_response,
\* _on_frame_capture_response, _on_select_localizations_response: nothing on
\* success; on failure the cause is read and logged.
on_pass_response(response) == UNCHANGED mirror
cause_response_raises(response) ==
    \/ response.status = "none"
    \/ response.status \notin {"ok", "none"} /\ ~response.cause

\* _on_request_information_response, _on_request_all_information_response,
\* _on_request_player_state_response, _on_frame_capture_done_response: the
\* success branch calls self._get_video_info / _get_video_player_state /
\* _get_frame_capture, which the class does not define (AttributeError), so no
\* assignment is made.
on_record_response(response) == UNCHANGED mirror
record_response_raises(response) ==
    \/ response.status \in {"ok", "none"}
    \/ ~response.cause

\* _on_add_localizations_response, _on_remove_localizations_response,
\* _on_update_localizations_response, _on_clear_localizations_response: the
\* four bodies are the same: commit on "ok"; otherwise read the cause, log it, revert.
on_localizations_response(response) ==
    /\ IF response.status = "ok" THEN commit_localizations
       ELSE IF response.status # "none" /\ response.cause THEN revert_localizations
       ELSE noLocChange
    /\ noMirrorButLocs

PassResponses == {"show", "play", "pause", "seek elapsed time", "frame advance",
                  "frame capture", "select localizations"}
RecordResponses == {"request information", "request all information",
                    "request player state", "frame capture done"}
LocResponses == {"add localizations", "remove localizations",
                 "update localizations", "clear localizations"}
KnownResponses == {"connect", "open", "open done", "close"} \cup PassResponses
                    \cup RecordResponses \cup LocResponses

\* _handle_response: the dispatch table; a name that is not in it gets the
\* default lambda, which takes no argument and is called with one (TypeError).
handle_response(response) ==
    /\ UNCHANGED <<sent, socket>>
    /\ CASE response.name = "connect" -> on_connect_response(response)
         [] response.name = "open" -> on_open_response(response)
         [] response.name = "open done" -> on_open_done_response(response)
         [] response.name = "close" -> on_close_response(response)
         [] response.name \in PassResponses -> on_pass_response(response)
         [] response.name \in RecordResponses -> on_record_response(response)
         [] response.name \in LocResponses -> on_localizations_response(response)
         [] OTHER -> UNCHANGED mirror
handle_response_raises(response) ==
    CASE response.name = "connect" -> on_connect_raises(response)
      [] response.name = "open" -> on_open_raises(response)
      [] response.name \in {"open done", "close"} -> uuid_response_raises(response)
      [] response.name \in PassResponses \cup LocResponses -> cause_response_raises(response)
      [] response.name \in RecordResponses -> record_response_raises(response)
      [] OTHER -> TRUE

\* _handle_command: "ping" is the only registered command; any other name
\* gets the default lambda (TypeError, as in _handle_response).
handle_command(command) ==
    IF command.name = "ping" THEN on_ping_command(command)
    ELSE UNCHANGED <<mirror, sent, socket>>
handle_command_raises(command) == command.name # "ping"

\* _handle_message
handle_message(message) ==
    IF message.key = "command" THEN handle_command(message)
    ELSE IF message.key = "response" THEN handle_response(message)
    ELSE UNCHANGED <<mirror, sent, socket>>
handle_message_raises(message) ==
    IF message.key = "command" THEN handle_command_raises(message)
    ELSE IF message.key = "response" THEN handle_response_raises(message)
    ELSE FALSE

\* ------------------------------------------------------------- the receive loop
\* Whether one iteration of the loop body ends in the except clause: the
\* datagram does not decode, or the handler run by on_next raises.
iteration_raises(d) ==
    /\ d.host = "peer"
    /\ ~d.wf \/ handle_message_raises(d.msg)

\* The value of _ok after an iteration on datagram d.
ok_after(d) == IF iteration_raises(d) THEN FALSE ELSE ok

\* The first self.socket of the loop, when no socket exists yet.
ReceiverBind ==
    /\ rpc = "loop" /\ ok /\ socket = "none"
    /\ socket' = socket_get(socket)
    /\ UNCHANGED <<mirror, ok, rpc, network, caller, sync, codec>>

\* One iteration of `while self._ok`: recvfrom returns the oldest datagram.
ReceiverStep ==
    /\ rpc = "loop" /\ ok /\ socket = "bound" /\ rxq # <<>>
    /\ LET d == Head(rxq) IN
       /\ (d.host = "peer" /\ d.wf /\ d.msg = PingCommand) => Len(sent) < MaxSent
       /\ rxq' = Tail(rxq)
       /\ IF d.host # "peer" \/ ~d.wf
          THEN UNCHANGED <<mirror, sent, socket>>
          ELSE handle_message(d.msg)
       /\ ok' = ok_after(d)
    /\ UNCHANGED <<rpc, caller, sync, codec>>

\* After the loop: the socket is closed if one exists; what waited in it is lost.
ReceiverExit ==
    /\ rpc = "loop" /\ ~ok
    /\ rpc' = "done"
    /\ socket' = "none"
    /\ rxq' = IF socket = "none" THEN rxq ELSE <<>>
    /\ UNCHANGED <<mirror, ok, sent, caller, sync, codec>>

\* ------------------------------------------------------------- client operations
\* The calling context runs one operation at a time.  An operation that
\* writes to the mirror after its send is two steps, the send and the rest,
\* since the receiver thread can run between them.
CanCall == cpc = Idle /\ Len(sent) < MaxSent
CanCallLoc == cpc = Idle /\ Len(sent) < MaxLocSent

Pending(op, uuid, locs, ids) == [op |-> op, uuid |-> uuid, locs |-> locs, ids |-> ids]

\* connect(port)
connect(port) ==
    /\ CanCall
    /\ connected' = FALSE
    /\ send([Cmd("connect", "none") EXCEPT !.port = port])
    /\ raised' = "none"
    /\ UNCHANGED <<video_open_state, focused_video_info, all_video_info,
                   video_player_state, frame_captures, uncommitted_localizations,
                   localizations, selected_localizations, ok, rpc, rxq, cpc, sync, codec>>

\* open(uuid, url), up to and including the send
open(uuid, url) ==
    /\ CanCall
    /\ send([Cmd("open", uuid) EXCEPT !.url = url])
    /\ cpc' = Pending("open", uuid, <<>>, <<>>)
    /\ UNCHANGED <<mirror, ok, rpc, rxq, raised, sync, codec>>

\* open, after the send: the assignment names self._opened_video_state, an
\* attribute no code creates, so it ends in AttributeError and writes nothing.
open_return ==
    /\ cpc.op = "open"
    /\ raised' = "AttributeError"
    /\ cpc' = Idle
    /\ UNCHANGED <<mirror, transport, network, sync, codec>>

\* close(uuid)
close(uuid) ==
    /\ CanCall
    /\ send(Cmd("close", uuid))
    /\ raised' = "none"
    /\ UNCHANGED <<mirror, ok, rpc, rxq, cpc, sync, codec>>

\* The uncommitted map after `for localization in localizations:
\* self._uncommitted_localizations[localization.uuid] = localization`: for a
\* uuid that occurs more than once the last occurrence stays.
AddAll(d, ls) ==
    LET ids == {ls[i].uuid : i \in 1..Len(ls)}
        last(k) == CHOOSE i \in 1..Len(ls) :
                      /\ ls[i].uuid = k
                      /\ \A j \in 1..Len(ls) : ls[j].uuid = k => j <= i
    IN [k \in DOMAIN d \cup ids |-> IF k \in ids THEN ls[last(k)] ELSE d[k]]

\* The uncommitted map after `for localization_uuid in localization_uuids:
\* self._uncommitted_localizations.pop(localization_uuid, None)`.
PopAll(d, ids) == [k \in DOMAIN d \ {ids[i] : i \in 1..Len(ids)} |-> d[k]]

\* Localization.encode, on the fields the model carries.
encode_localization(l) == [uuid |-> l.uuid, concept |-> l.concept]
EncodeAll(ls) == [i \in 1..Len(ls) |-> encode_localization(ls[i])]

\* add_localizations(uuid, localizations), up to and including the send
add_localizations(uuid, ls) ==
    /\ CanCallLoc
    /\ send([Cmd("add localizations", uuid) EXCEPT !.locs = EncodeAll(ls)])
    /\ cpc' = Pending("add", uuid, ls, <<>>)
    /\ UNCHANGED <<mirror, ok, rpc, rxq, raised, sync, codec>>

\* remove_localizations(uuid, localization_uuids), up to and including the send
remove_localizations(uuid, ids) ==
    /\ CanCallLoc
    /\ send([Cmd("remove localizations", uuid) EXCEPT !.ids = ids])
    /\ cpc' = Pending("remove", uuid, <<>>, ids)
    /\ UNCHANGED <<mirror, ok, rpc, rxq, raised, sync, codec>>

\* update_localizations(uuid, localizations), up to and including the send
update_localizations(uuid, ls) ==
    /\ CanCallLoc
    /\ send([Cmd("update localizations", uuid) EXCEPT !.locs = EncodeAll(ls)])
    /\ cpc' = Pending("update", uuid, ls, <<>>)
    /\ UNCHANGED <<mirror, ok, rpc, rxq, raised, sync, codec>>

\* clear_localizations(uuid), up to and including the send
clear_localizations(uuid) ==
    /\ CanCallLoc
    /\ send(Cmd("clear localizations", uuid))
    /\ cpc' = Pending("clear", uuid, <<>>, <<>>)
    /\ UNCHANGED <<mirror, ok, rpc, rxq, raised, sync, codec>>

\* The optimistic write that ends add / remove / update / clear localizations.
\* None of the four looks at the video uuid: the maps are keyed by the
\* localization uuid alone.
optimistic(pending, d) ==
    CASE pending.op \in {"add", "update"} -> AddAll(d, pending.locs)
      [] pending.op = "remove" -> PopAll(d, pending.ids)
      [] pending.op = "clear" -> EmptyDict

localizations_return ==
    /\ cpc.op \in {"add", "remove", "update", "clear"}
    /\ uncommitted_localizations' = optimistic(cpc, uncommitted_localizations)
    /\ cpc' = Idle
    /\ raised' = "none"
    /\ UNCHANGED <<connected, video_open_state, focused_video_info, all_video_info,
                   video_player_state, frame_captures, localizations,
                   selected_localizations, transport, network, sync, codec>>

\* request_information(): the cached focused info is set to None, then the
\* command is sent.  Both are steps of the calling context and no handler
\* writes between them what the call then reads, so they are one step.
request_information ==
    /\ CanCall
    /\ focused_video_info' = "none"
    /\ send(Cmd("request information", "none"))
    /\ raised' = "none"
    /\ UNCHANGED <<connected, video_open_state, all_video_info, video_player_state,
                   frame_captures, uncommitted_localizations, localizations,
                   selected_localizations, ok, rpc, rxq, cpc, sync, codec>>

\* request_all_information()
request_all_information ==
    /\ CanCall
    /\ all_video_info' = "none"
    /\ send(Cmd("request all information", "none"))
    /\ raised' = "none"
    /\ UNCHANGED <<connected, video_open_state, focused_video_info, video_player_state,
                   frame_captures, uncommitted_localizations, localizations,
                   selected_localizations, ok, rpc, rxq, cpc, sync, codec>>

\* request_player_state(uuid): self._video_player_state.pop(uuid, None), then the send.
request_player_state(uuid) ==
    /\ CanCall
    /\ video_player_state' = DictPop(video_player_state, uuid)
    /\ send(Cmd("request player state", uuid))
    /\ raised' = "none"
    /\ UNCHANGED <<connected, video_open_state, focused_video_info, all_video_info,
                   frame_captures, uncommitted_localizations, localizations,
                   selected_localizations, ok, rpc, rxq, cpc, sync, codec>>

\* frame_capture(uuid, image_location, image_reference_uuid): the send only.
\* The image location and reference travel to the peer and come back in
\* "frame capture done"; the client keeps nothing of them at the call.
frame_capture(uuid) ==
    /\ CanCall
    /\ send(Cmd("frame capture", uuid))
    /\ raised' = "none"
    /\ UNCHANGED <<mirror, ok, rpc, rxq, cpc, sync, codec>>

\* select_localizations(uuid, localization_uuids), up to and including the send
select_localizations(uuid, ids) ==
    /\ CanCallLoc
    /\ send([Cmd("select localizations", uuid) EXCEPT !.ids = ids])
    /\ cpc' = Pending("select", uuid, <<>>, ids)
    /\ UNCHANGED <<mirror, ok, rpc, rxq, raised, sync, codec>>

\* A select_localizations that adds the uuids to the video's previous selection.
select_localizations_return_merging ==
    /\ cpc.op = "select"
    /\ selected_localizations' =
          DictSet(selected_localizations, cpc.uuid,
                  (IF cpc.uuid \in DOMAIN selected_localizations
                   THEN selected_localizations[cpc.uuid] ELSE <<>>) \o cpc.ids)
    /\ cpc' = Idle
    /\ raised' = "none"
    /\ UNCHANGED <<connected, video_open_state, focused_video_info, all_video_info,
                   video_player_state, frame_captures, uncommitted_localizations,
                   localizations, transport, network, sync, codec>>

\* select_localizations, after the send:
\* self._selected_localizations[uuid] = localization_uuids
select_localizations_return ==
    /\ cpc.op = "select"
    /\ selected_localizations' = DictSet(selected_localizations, cpc.uuid, cpc.ids)
    /\ cpc' = Idle
    /\ raised' = "none"
    /\ UNCHANGED <<connected, video_open_state, focused_video_info, all_video_info,
                   video_player_state, frame_captures, uncommitted_localizations,
                   localizations, transport, network, sync, codec>>

\* ------------------------------------------------------------- the peer and the network
\* The replies the peer can give to a command: a success, or a failure with its cause.
Replies(command) ==
    {Resp(command.name, st, command.uuid, st # "ok") : st \in {"ok", "failed"}}

\* The peer takes the oldest datagram sent to it.  A command is answered,
\* unless the command or the answer is lost; a response (to a ping) ends there.
\* s is the receive socket the answer goes to, n the datagrams it holds at most.
PeerTakeOn(s, n) ==
    /\ sent # <<>>
    /\ sent' = Tail(sent)
    /\ \/ UNCHANGED rxq
       \/ /\ Head(sent).key = "command"
          /\ s = "bound" /\ Len(rxq) < n
          /\ \E r \in Replies(Head(sent)) : rxq' = Append(rxq, Datagram("peer", r))
    /\ UNCHANGED <<mirror, transport, caller, sync, codec>>
PeerTake == PeerTakeOn(socket, MaxQueue)

\* A datagram nobody asked for reaches the receive socket s.
PeerPushOn(s, n, D) ==
    /\ s = "bound" /\ Len(rxq) < n
    /\ \E d \in D : rxq' = Append(rxq, d)
    /\ UNCHANGED <<mirror, transport, sent, caller, sync, codec>>
PeerPush(D) == PeerPushOn(socket, MaxQueue, D)

Receiver == ReceiverBind \/ ReceiverStep \/ ReceiverExit

\* ------------------------------------------------------------- Spec: the session
\* connect, open and close against a peer that also pings, announces
\* "open done", and sends datagrams that do not decode.
\* The client opens and closes the videos of SessionVideos; the peer may
\* announce any video.
SessionVideos == {"v1"}
SessionPushes ==
    {Datagram("peer", PingCommand), Garbage("peer")}
      \cup {Datagram("peer", Resp("open done", "ok", v, FALSE)) : v \in Videos}
      \cup {Datagram("peer", Resp("open done", "failed", "v1", c)) : c \in BOOLEAN}

Connect == \E port \in Ports : connect(port)
Open == \E uuid \in SessionVideos, url \in Urls : open(uuid, url)
Close == \E uuid \in SessionVideos : close(uuid)
SessionPush == PeerPush(SessionPushes)

Next ==
    \/ Connect
    \/ Open
    \/ open_return
    \/ Close
    \/ ReceiverBind
    \/ ReceiverStep
    \/ ReceiverExit
    \/ PeerTake
    \/ SessionPush

Spec == Init /\ [][Next]_vars

\* ------------------------------------------------------------- LocSpec: the localization working set
\* add, remove, update and clear localizations on one video, against a peer
\* that answers each with a success or a failure, and that may also send a
\* failure that carries no cause.
LocVideo == "v1"
\* The lists of at most MaxLocs uuids, in one order and without repetition.
Rank(id) == CHOOSE i \in 1..Len(LocOrder) : LocOrder[i] = id
Ascending(ids) == \A i, j \in 1..Len(ids) : i < j => Rank(ids[i]) < Rank(ids[j])
IdLists == {ids \in UNION {[1..n -> LocIds] : n \in 1..MaxLocs} : Ascending(ids)}
\* Localizations are added with concept "a" and updated to concept "b".
AddLists == {[i \in 1..Len(ids) |-> Localization(ids[i], "a")] : ids \in IdLists}
UpdateLists == {[i \in 1..Len(ids) |-> Localization(ids[i], "b")] : ids \in IdLists}
LocPushes == {Datagram("peer", Resp("add localizations", "failed", LocVideo, FALSE))}

Add == \E ls \in AddLists : add_localizations(LocVideo, ls)
Remove == \E ids \in IdLists : remove_localizations(LocVideo, ids)
Update == \E ls \in UpdateLists : update_localizations(LocVideo, ls)
Clear == clear_localizations(LocVideo)
LocPeerTake == PeerTakeOn(socket, MaxLocQueue)
LocPush == PeerPushOn(socket, MaxLocQueue, LocPushes)

LocNext ==
    \/ Add
    \/ Remove
    \/ Update
    \/ Clear
    \/ localizations_return
    \/ ReceiverBind
    \/ ReceiverStep
    \/ ReceiverExit
    \/ LocPeerTake
    \/ LocPush

LocSpec == Init /\ [][LocNext]_vars

\* ------------------------------------------------------------- LiveSpec: pings under fair scheduling
\* connect commands outstanding while the peer pings and sends datagrams
\* that do not decode, and another host pings too.  The receiver thread is scheduled whenever it can
\* run, and the network delivers what was sent.
LivePushes ==
    {Datagram("peer", PingCommand), Garbage("peer"), Datagram("other", PingCommand)}
LivePush == PeerPush(LivePushes)

LiveNext ==
    \/ Connect
    \/ ReceiverBind
    \/ ReceiverStep
    \/ ReceiverExit
    \/ PeerTake
    \/ LivePush

LiveSpec ==
    /\ Init /\ [][LiveNext]_vars
    /\ WF_vars(ReceiverBind) /\ SF_vars(ReceiverStep) /\ WF_vars(ReceiverExit)
    /\ WF_vars(PeerTake)

\* ------------------------------------------------------------- SyncSpec: the synchronous transport
\* UDPServer.socket: the same lazy getter as RxUDPServer.socket.
u_socket_get(s) == IF s = "none" THEN "bound" ELSE s

\* UDPServer.send(data)
u_send(data) ==
    /\ CanCall
    /\ sent' = Append(sent, data)
    /\ usocket' = u_socket_get(usocket)
    /\ UNCHANGED <<mirror, transport, rxq, caller, uresult, codec>>

\* UDPServer.receive(timeout), up to the blocking recvfrom: self.socket
\* creates the socket if there is none, and the timeout is set on it.
u_receive(timeout) ==
    /\ cpc = Idle
    /\ usocket' = u_socket_get(usocket)
    /\ cpc' = Pending("receive", "none", <<>>, <<>>)
    /\ UNCHANGED <<mirror, transport, network, raised, uresult, codec>>

\* The exception that leaves receive when recvfrom raises socket.timeout:
\* the clause `except timeout:` names the parameter timeout, a number, and
\* matching an exception against a number is a TypeError.
timeout_exception == "TypeError"

\* UDPServer.receive, from recvfrom on: a datagram if one arrived in time
\* (decoded, or the decoder's exception), else the timeout path.
u_receive_return ==
    /\ cpc.op = "receive"
    /\ cpc' = Idle
    /\ IF rxq = <<>>
       THEN /\ uresult' = Result(TRUE, timeout_exception, NoMsg)
            /\ UNCHANGED rxq
       ELSE /\ rxq' = Tail(rxq)
            /\ uresult' = IF Head(rxq).wf
                          THEN Result(FALSE, "none", Head(rxq).msg)
                          ELSE Result(FALSE, "JSONDecodeError", NoMsg)
    /\ UNCHANGED <<mirror, transport, sent, raised, usocket, codec>>

Timeouts == {1, 5}
SyncRequests ==
    {[Cmd("connect", "none") EXCEPT !.port = port] : port \in Ports}
      \cup {Cmd("close", v) : v \in Videos}
      \cup {Cmd("request information", "none")}
SyncPushes == {Datagram("peer", PingCommand), Garbage("peer")}

USend == \E data \in SyncRequests : u_send(data)
UReceive == \E timeout \in Timeouts : u_receive(timeout)
SyncPeerTake == PeerTakeOn(usocket, MaxQueue)
SyncPush == PeerPushOn(usocket, MaxQueue, SyncPushes)

SyncNext ==
    \/ USend
    \/ UReceive
    \/ u_receive_return
    \/ SyncPeerTake
    \/ SyncPush

SyncSpec == Init /\ [][SyncNext]_vars

\* ------------------------------------------------------------- RaceSpec: the working set, write by write
\* As LocSpec, with the optimistic write of a call taken one dict operation
\* at a time: the for loop of add / update / remove localizations runs on
\* the calling context while the receiver thread runs the handlers, and no
\* lock is held by either, so a commit or a revert can fall between two
\* iterations.  The position "<op> loop" is inside the loop, after at least
\* one iteration, with the items still to be written.
InLoop == {"add loop", "update loop", "remove loop"}
BaseOp(op) ==
    CASE op \in {"add", "add loop"} -> "add"
      [] op \in {"update", "update loop"} -> "update"
      [] op \in {"remove", "remove loop"} -> "remove"
      [] op = "clear" -> "clear"
LoopOp(op) ==
    CASE op = "add" -> "add loop"
      [] op = "update" -> "update loop"
      [] op = "remove" -> "remove loop"
First(q) == IF q = <<>> THEN <<>> ELSE <<Head(q)>>
Rest(q) == IF q = <<>> THEN <<>> ELSE Tail(q)

\* One iteration of `for localization in localizations:` (add, update) or of
\* `for localization_uuid in localization_uuids:` (remove), or the one
\* clear() of clear_localizations; the call returns after the last.
localizations_iterate ==
    /\ cpc.op \in {"add", "update", "remove", "clear"} \cup InLoop
    /\ LET op == BaseOp(cpc.op)
           one == Pending(op, cpc.uuid, First(cpc.locs), First(cpc.ids))
           last == op = "clear" \/ (Rest(cpc.locs) = <<>> /\ Rest(cpc.ids) = <<>>)
       IN /\ uncommitted_localizations' = optimistic(one, uncommitted_localizations)
          /\ cpc' = IF last THEN Idle
                    ELSE Pending(LoopOp(op), cpc.uuid, Rest(cpc.locs), Rest(cpc.ids))
          /\ raised' = IF last THEN "none" ELSE raised
    /\ UNCHANGED <<connected, video_open_state, focused_video_info, all_video_info,
                   video_player_state, frame_captures, localizations,
                   selected_localizations, transport, network, sync, codec>>

RaceNext ==
    \/ Add
    \/ Remove
    \/ Update
    \/ Clear
    \/ localizations_iterate
    \/ ReceiverBind
    \/ ReceiverStep
    \/ ReceiverExit
    \/ LocPeerTake
    \/ LocPush

RaceSpec == Init /\ [][RaceNext]_vars

\* ------------------------------------------------------------- SeqSpec: mutations one at a time
\* add, remove, update and clear localizations issued one at a time: a call
\* is made only when no mutation is outstanding, and the peer answers every
\* command with a success or a failure (no datagram is lost).  The peer may
\* also send a failure that carries no cause.
NoneOutstanding ==
    /\ cpc = Idle
    /\ \A i \in 1..Len(sent) : sent[i].key # "command"
    /\ \A i \in 1..Len(rxq) : ~(rxq[i].wf /\ rxq[i].msg.key = "response")

\* The peer takes the oldest command and its answer reaches the receive socket.
PeerAnswer ==
    /\ sent # <<>> /\ Head(sent).key = "command"
    /\ socket = "bound" /\ Len(rxq) < MaxLocQueue
    /\ sent' = Tail(sent)
    /\ \E r \in Replies(Head(sent)) : rxq' = Append(rxq, Datagram("peer", r))
    /\ UNCHANGED <<mirror, transport, caller, sync, codec>>

SeqAdd == NoneOutstanding /\ Add
SeqRemove == NoneOutstanding /\ Remove
SeqUpdate == NoneOutstanding /\ Update
SeqClear == NoneOutstanding /\ Clear

SeqNext ==
    \/ SeqAdd
    \/ SeqRemove
    \/ SeqUpdate
    \/ SeqClear
    \/ localizations_return
    \/ ReceiverBind
    \/ ReceiverStep
    \/ ReceiverExit
    \/ PeerAnswer
    \/ LocPush

SeqSpec == Init /\ [][SeqNext]_vars

\* ------------------------------------------------------------- VidSpec: localizations of two videos
\* The caller keeps l1 on video v1 and l2 on video v2: each is added to and
\* removed from its own video only, and either video can be cleared.  The
\* peer answers as in LocSpec.
VideoOf(id) == IF id = "l1" THEN "v1" ELSE "v2"
VidAdd == \E id \in LocIds : add_localizations(VideoOf(id), <<Localization(id, "a")>>)
VidRemove == \E id \in LocIds : remove_localizations(VideoOf(id), <<id>>)
VidClear == \E uuid \in Videos : clear_localizations(uuid)

VidNext ==
    \/ VidAdd
    \/ VidRemove
    \/ VidClear
    \/ localizations_return
    \/ ReceiverBind
    \/ ReceiverStep
    \/ ReceiverExit
    \/ LocPeerTake
    \/ LocPush

VidSpec == Init /\ [][VidNext]_vars

\* ------------------------------------------------------------- RejectSpec: a peer that refuses one video
\* As VidSpec, with adds and updates only, against a peer that answers every
\* command on RejectedVideo with a failure and every other command with a
\* success: l2, kept on that video, is never acknowledged.
RejectedVideo == "v2"
RejectingReplies(command) ==
    {Resp(command.name, st, command.uuid, st # "ok") :
        st \in {IF command.uuid = RejectedVideo THEN "failed" ELSE "ok"}}
RejectingPeerTake ==
    /\ sent # <<>>
    /\ sent' = Tail(sent)
    /\ \/ UNCHANGED rxq
       \/ /\ Head(sent).key = "command"
          /\ socket = "bound" /\ Len(rxq) < MaxLocQueue
          /\ \E r \in RejectingReplies(Head(sent)) :
                rxq' = Append(rxq, Datagram("peer", r))
    /\ UNCHANGED <<mirror, transport, caller, sync, codec>>
VidUpdate == \E id \in LocIds : update_localizations(VideoOf(id), <<Localization(id, "b")>>)

RejectNext ==
    \/ VidAdd
    \/ VidUpdate
    \/ localizations_return
    \/ ReceiverBind
    \/ ReceiverStep
    \/ ReceiverExit
    \/ RejectingPeerTake
    \/ LocPush

RejectSpec == Init /\ [][RejectNext]_vars

\* ------------------------------------------------------------- StopSpec: the transport on its own
\* The RxUDPServer with its owner: the owner sends through the send subject
\* and may clear the liveness flag; the port may be taken when the socket is
\* bound.  Here the loop test and the blocking recvfrom are separate steps
\* of the receiver thread, since the owner's write to _ok can fall between
\* them (in the other specifications only the receiver thread writes _ok,
\* and ReceiverStep is the two in one).

\* RxUDPServer.socket when no socket exists: the socket object is stored in
\* _socket, then bound; if the port is not free the bind raises OSError and
\* the unbound socket stays in _socket.
socket_bind(free) == IF free THEN "bound" ELSE "unbound"

\* `while self._ok:` was true and the iteration evaluates self.socket: the
\* thread then blocks in recvfrom, or the bind raises inside the try and the
\* except clause logs the error and clears _ok.
ReceiverEnter ==
    /\ rpc = "loop" /\ ok
    /\ \E free \in BOOLEAN :
          IF socket = "none"
          THEN /\ socket' = socket_bind(free)
               /\ ok' = free
               /\ rpc' = IF free THEN "recv" ELSE "loop"
          ELSE /\ free
               /\ UNCHANGED <<socket, ok>>
               /\ rpc' = "recv"
    /\ UNCHANGED <<mirror, network, caller, sync, codec>>

\* recvfrom returns the oldest datagram and the rest of the iteration runs.
\* The socket has no timeout: with no datagram the thread stays in recvfrom.
ReceiverRecv ==
    /\ rpc = "recv" /\ socket = "bound" /\ rxq # <<>>
    /\ LET d == Head(rxq) IN
       /\ (d.host = "peer" /\ d.wf /\ d.msg = PingCommand) => Len(sent) < MaxSent
       /\ rxq' = Tail(rxq)
       /\ IF d.host # "peer" \/ ~d.wf
          THEN UNCHANGED <<mirror, sent, socket>>
          ELSE handle_message(d.msg)
       /\ ok' = ok_after(d)
    /\ rpc' = "loop"
    /\ UNCHANGED <<caller, sync, codec>>

\* The owner clears the liveness flag.  RxUDPServer has no method that does
\* it; the attribute is the only handle on the loop.
Stop ==
    /\ ok
    /\ ok' = FALSE
    /\ UNCHANGED <<mirror, socket, rpc, network, caller, sync, codec>>

\* send_subject.on_next(data), which runs _send in the caller: self.socket
\* binds when no socket exists, and an OSError of the bind reaches the caller;
\* sendto on a socket whose bind failed still sends.
rx_send_binding(m) ==
    /\ cpc = Idle /\ Len(sent) < MaxSent
    /\ \E free \in BOOLEAN :
          IF socket = "none"
          THEN /\ socket' = socket_bind(free)
               /\ sent' = IF free THEN Append(sent, m) ELSE sent
               /\ raised' = IF free THEN "none" ELSE "OSError"
          ELSE /\ free
               /\ rx_send(m)
               /\ raised' = "none"
    /\ UNCHANGED <<mirror, ok, rpc, rxq, cpc, sync, codec>>

StopPushes == {Datagram("peer", PingCommand), Garbage("peer")}
RxSend == \E port \in Ports : rx_send_binding([Cmd("connect", "none") EXCEPT !.port = port])
StopPush == PeerPush(StopPushes)

StopNext ==
    \/ RxSend
    \/ Stop
    \/ ReceiverEnter
    \/ ReceiverRecv
    \/ ReceiverExit
    \/ PeerTake
    \/ StopPush

\* The receiver thread runs whenever it can, and the network delivers what
\* was sent.  No datagram has to arrive.
StopSpec ==
    /\ Init /\ [][StopNext]_vars
    /\ WF_vars(ReceiverEnter) /\ SF_vars(ReceiverRecv) /\ WF_vars(ReceiverExit)
    /\ WF_vars(PeerTake)

\* ------------------------------------------------------------- GetterSpec: the lazy socket getter, step by step
\* RxUDPServer.socket is three steps of the thread that evaluates it: the
\* test `self._socket is None`, the assignment of a new socket object to
\* _socket, and the bind of whatever _socket then holds.  The receiver
\* thread evaluates it in every iteration of its loop, a sending context in
\* every _send; nothing orders the steps of the two.
\*   rpc:    "getter checked" (found None), "getter created" (assigned, not
\*           bound yet), "recv" (in recvfrom on the socket of _socket),
\*           "recv orphan" (in recvfrom on a bound socket that _socket no
\*           longer holds)
\*   cpc.op: "send checked", "send created", likewise for the sender

\* `if self._socket is None:` in the receiver thread, after `while self._ok`.
ReceiverGetterCheck ==
    /\ rpc = "loop" /\ ok
    /\ rpc' = IF socket = "none" THEN "getter checked" ELSE "recv"
    /\ UNCHANGED <<mirror, ok, socket, network, caller, sync, codec>>

\* `self._socket = socket(AF_INET, SOCK_DGRAM)` in the receiver thread.
ReceiverGetterCreate ==
    /\ rpc = "getter checked"
    /\ socket' = "unbound"
    /\ rpc' = "getter created"
    /\ UNCHANGED <<mirror, ok, network, caller, sync, codec>>

\* How `self._socket.bind(("", receive_port))` ends for the socket s that
\* _socket holds: AttributeError when _socket is None again, OSError when
\* that socket is bound already or the port is not free.
bind_raises(s, free) ==
    CASE s = "none" -> "AttributeError"
      [] s = "bound" -> "OSError"
      [] s = "unbound" -> IF free THEN "none" ELSE "OSError"

\* The bind in the receiver thread: it goes on to recvfrom, or the
\* exception reaches the except clause of the loop, which clears _ok.
ReceiverGetterBind ==
    /\ rpc = "getter created"
    /\ \E free \in BOOLEAN :
          LET exc == bind_raises(socket, free) IN
          /\ socket' = IF exc = "none" THEN "bound" ELSE socket
          /\ ok' = (exc = "none")
          /\ rpc' = IF exc = "none" THEN "recv" ELSE "loop"
    /\ UNCHANGED <<mirror, network, caller, sync, codec>>

\* recvfrom returns the oldest datagram of the socket the thread reads
\* from, and the rest of the iteration runs.
ReceiverGetterRecv ==
    /\ rpc \in {"recv", "recv orphan"}
    /\ rpc = "recv" => socket = "bound"
    /\ rxq # <<>>
    /\ LET d == Head(rxq) IN
       /\ (d.host = "peer" /\ d.wf /\ d.msg = PingCommand)
            => (Len(sent) < MaxSent /\ socket # "none")
       /\ rxq' = Tail(rxq)
       /\ IF d.host # "peer" \/ ~d.wf
          THEN UNCHANGED <<mirror, sent, socket>>
          ELSE handle_message(d.msg)
       /\ ok' = ok_after(d)
    /\ rpc' = "loop"
    /\ UNCHANGED <<caller, sync, codec>>

\* `if self._socket is None:` in _send; with a socket there, sendto.
SenderGetterCheck(m) ==
    /\ cpc = Idle /\ Len(sent) < MaxSent
    /\ IF socket = "none"
       THEN /\ cpc' = Pending("send checked", "none", <<>>, <<>>)
            /\ UNCHANGED <<sent, raised>>
       ELSE /\ sent' = Append(sent, m)
            /\ raised' = "none"
            /\ UNCHANGED cpc
    /\ UNCHANGED <<mirror, transport, rxq, sync, codec>>

\* `self._socket = socket(AF_INET, SOCK_DGRAM)` in _send: a socket the
\* receiver thread is reading from is no longer the one _socket holds.
SenderGetterCreate ==
    /\ cpc.op = "send checked"
    /\ socket' = "unbound"
    /\ cpc' = Pending("send created", "none", <<>>, <<>>)
    /\ rpc' = IF rpc = "recv" /\ socket = "bound" THEN "recv orphan" ELSE rpc
    /\ UNCHANGED <<mirror, ok, network, raised, sync, codec>>

\* The bind in _send, then sendto; an exception of the bind reaches the
\* caller.  The port is not free while the receiver thread reads from a
\* bound socket.
SenderGetterBind(m) ==
    /\ cpc.op = "send created"
    /\ \E free \in BOOLEAN :
          LET exc == bind_raises(socket, free) IN
          /\ rpc = "recv orphan" => ~free
          /\ socket' = IF exc = "none" THEN "bound" ELSE socket
          /\ sent' = IF exc = "none" THEN Append(sent, m) ELSE sent
          /\ raised' = exc
    /\ cpc' = Idle
    /\ UNCHANGED <<mirror, ok, rpc, rxq, sync, codec>>

\* The command the sending context sends.
GetterCommands == {[Cmd("connect", "none") EXCEPT !.port = port] : port \in Ports}
SenderCheck == \E m \in GetterCommands : SenderGetterCheck(m)
SenderBind == \E m \in GetterCommands : SenderGetterBind(m)
\* Datagrams reach the socket that is bound to the receive port.
GetterPush ==
    PeerPushOn(IF rpc = "recv orphan" THEN "bound" ELSE socket, MaxQueue, StopPushes)

GetterNext ==
    \/ ReceiverGetterCheck
    \/ ReceiverGetterCreate
    \/ ReceiverGetterBind
    \/ ReceiverGetterRecv
    \/ ReceiverExit
    \/ SenderCheck
    \/ SenderGetterCreate
    \/ SenderBind
    \/ PeerTake
    \/ GetterPush

GetterSpec == Init /\ [][GetterNext]_vars

\* ------------------------------------------------------------- CodecSpec: the record types
\* Values that are not JSON values are tagged with their type: a UUID, a
\* Path and a PlayStatus member are pairs of the type's name and the string
\* that str() or .value gives; the constructors parse that string back.
UUID(s) == <<"UUID", s>>
str_UUID(u) == u[2]
Path(s) == <<"Path", s>>
str_Path(p) == p[2]
PlayStatus(v) == <<"PlayStatus", v>>
PlayStatus_value(m) == m[2]

\* VideoPlayerState.encode / .decode
VideoPlayerState_encode(x) ==
    [status |-> PlayStatus_value(x.status), rate |-> x.rate]
VideoPlayerState_decode(d) ==
    [status |-> PlayStatus(d.status), rate |-> d.rate]

\* VideoInfo.encode / .decode
VideoInfo_encode(x) ==
    [uuid |-> str_UUID(x.uuid), url |-> x.url, durationMillis |-> x.duration_millis,
     frameRate |-> x.frame_rate, isKey |-> x.is_key]
VideoInfo_decode(d) ==
    [uuid |-> UUID(d.uuid), url |-> d.url, duration_millis |-> d.durationMillis,
     frame_rate |-> d.frameRate, is_key |-> d.isKey]

\* FrameCapture.encode / .decode
FrameCapture_encode(x) ==
    [uuid |-> str_UUID(x.uuid), elapsedTimeMillis |-> x.elapsed_time_millis,
     imageReferenceUuid |-> str_UUID(x.image_reference_uuid),
     imageLocation |-> str_Path(x.image_location)]
FrameCapture_decode(d) ==
    [uuid |-> UUID(d.uuid), elapsed_time_millis |-> d.elapsedTimeMillis,
     image_reference_uuid |-> UUID(d.imageReferenceUuid),
     image_location |-> Path(d.imageLocation)]

\* Localization.encode: the key "color" is set only when color is not None.
Localization_encode(x) ==
    LET data == [uuid |-> str_UUID(x.uuid), concept |-> x.concept,
                 elapsedTimeMillis |-> x.elapsed_time_millis,
                 durationMillis |-> x.duration_millis,
                 x |-> x.x, y |-> x.y, width |-> x.width, height |-> x.height]
    IN IF x.color # "None" THEN data @@ [color |-> x.color] ELSE data

\* A decode that does not read the optional key.
Localization_decode_without_color(d) ==
    [uuid |-> UUID(d.uuid), concept |-> d.concept,
     elapsed_time_millis |-> d.elapsedTimeMillis,
     duration_millis |-> d.durationMillis,
     x |-> d.x, y |-> d.y, width |-> d.width, height |-> d.height,
     color |-> "None"]

\* Localization.decode: color is None when the key is missing.
Localization_decode(d) ==
    [uuid |-> UUID(d.uuid), concept |-> d.concept,
     elapsed_time_millis |-> d.elapsedTimeMillis,
     duration_millis |-> d.durationMillis,
     x |-> d.x, y |-> d.y, width |-> d.width, height |-> d.height,
     color |-> IF "color" \in DOMAIN d THEN d.color ELSE "None"]

encode(kind, x) ==
    CASE kind = "VideoPlayerState" -> VideoPlayerState_encode(x)
      [] kind = "VideoInfo" -> VideoInfo_encode(x)
      [] kind = "FrameCapture" -> FrameCapture_encode(x)
      [] kind = "Localization" -> Localization_encode(x)
decode(kind, d) ==
    CASE kind = "VideoPlayerState" -> VideoPlayerState_decode(d)
      [] kind = "VideoInfo" -> VideoInfo_decode(d)
      [] kind = "FrameCapture" -> FrameCapture_decode(d)
      [] kind = "Localization" -> Localization_decode(d)

\* The values the round trip is tried on.
UUIDs == {UUID(v) : v \in Videos}
Millis == {0, 1500}
Rates == {0, 2}
Colors == {"None", "#ff0000"}
Paths == {Path("/tmp/a.png"), Path("b.png")}
PlayStatuses == {PlayStatus(v) : v \in {"playing", "shuttling forward",
                                          "shuttling reverse", "paused"}}
VideoPlayerStates == [status : PlayStatuses, rate : Rates]
VideoInfos == [uuid : UUIDs, url : Urls, duration_millis : Millis,
               frame_rate : {30}, is_key : BOOLEAN]
FrameCaptures == [uuid : UUIDs, elapsed_time_millis : Millis,
                  image_reference_uuid : UUIDs, image_location : Paths]
LocalizationValues ==
    [uuid : UUIDs, concept : Concepts, elapsed_time_millis : Millis,
     x : {1}, y : {2}, width : {3}, height : {4},
     duration_millis : {0, 40}, color : Colors]
ValuesOf(kind) ==
    CASE kind = "VideoPlayerState" -> VideoPlayerStates
      [] kind = "VideoInfo" -> VideoInfos
      [] kind = "FrameCapture" -> FrameCaptures
      [] kind = "Localization" -> LocalizationValues
Kinds == {"VideoPlayerState", "VideoInfo", "FrameCapture", "Localization"}

\* A value of one of the record types is constructed, ...
Construct ==
    /\ codec.stage \in {"idle", "decoded"}
    /\ \E kind \in Kinds : \E x \in ValuesOf(kind) :
          codec' = [kind |-> kind, stage |-> "value", value |-> x,
                    wire |-> "none", back |-> "none"]
    /\ UNCHANGED <<mirror, transport, network, caller, sync>>
\* ... encoded, ...
Encode ==
    /\ codec.stage = "value"
    /\ codec' = [codec EXCEPT !.stage = "encoded",
                              !.wire = encode(codec.kind, codec.value)]
    /\ UNCHANGED <<mirror, transport, network, caller, sync>>
\* ... and decoded from what encode gave.
Decode ==
    /\ codec.stage = "encoded"
    /\ codec' = [codec EXCEPT !.stage = "decoded",
                              !.back = decode(codec.kind, codec.wire)]
    /\ UNCHANGED <<mirror, transport, network, caller, sync>>

CodecNext ==
    \/ Construct
    \/ Encode
    \/ Decode

CodecSpec == Init /\ [][CodecNext]_vars

\* ------------------------------------------------------------- DurationSpec: durations on the wire
\* JavaTypes.Duration is a datetime.timedelta; the converter reads one from a
\* decimal string of milliseconds and writes one back.
MaxMillis == 1500    \* the longest duration read, in milliseconds

\* str(n) and int(s) for a non-negative integer: decimal digits, most
\* significant first.
Digits == <<"0", "1", "2", "3", "4", "5", "6", "7", "8", "9">>
DigitValue(c) == CHOOSE d \in 0..9 : Digits[d + 1] = c
RECURSIVE str_int(_)
str_int(n) ==
    IF n < 10 THEN <<Digits[n + 1]>>
    ELSE Append(str_int(n \div 10), Digits[(n % 10) + 1])
RECURSIVE int_str(_)
int_str(s) ==
    IF Len(s) = 1 THEN DigitValue(s[1])
    ELSE 10 * int_str(SubSeq(s, 1, Len(s) - 1)) + DigitValue(s[Len(s)])

\* datetime.timedelta(milliseconds=millis): the length is kept normalised as
\* days, seconds within the day and microseconds within the second.
timedelta_of_milliseconds(millis) ==
    [days |-> millis \div (86400 * 1000),
     seconds |-> (millis % (86400 * 1000)) \div 1000,
     microseconds |-> (millis % 1000) * 1000]
\* Duration.ofMillis
Duration_ofMillis(millis) == timedelta_of_milliseconds(millis)
\* Duration.toMillis: the microseconds attribute alone, in milliseconds.
Duration_toMillis(duration) == duration.microseconds \div 1000
\* The length of a duration in whole milliseconds.
total_milliseconds(duration) ==
    (duration.days * 86400 + duration.seconds) * 1000
        + duration.microseconds \div 1000

\* DurationConverter.deserialize and .serialize
DurationConverter_deserialize(json_str) == Duration_ofMillis(int_str(json_str))
DurationConverter_serialize(duration) == str_int(Duration_toMillis(duration))

\* A duration is read from the wire, ...
Deserialize ==
    /\ codec.stage \in {"idle", "serialized"}
    /\ \E m \in 0..MaxMillis :
          codec' = [kind |-> "Duration", stage |-> "deserialized",
                    value |-> DurationConverter_deserialize(str_int(m)),
                    wire |-> str_int(m), back |-> "none"]
    /\ UNCHANGED <<mirror, transport, network, caller, sync>>
\* ... and written back.
Serialize ==
    /\ codec.stage = "deserialized"
    /\ codec' = [codec EXCEPT !.stage = "serialized",
                              !.back = DurationConverter_serialize(codec.value)]
    /\ UNCHANGED <<mirror, transport, network, caller, sync>>

DurationNext ==
    \/ Deserialize
    \/ Serialize

DurationSpec == Init /\ [][DurationNext]_vars

\* ------------------------------------------------------------- CacheSpec: the cached query results
\* request information, request all information, request player state and
\* frame capture against a peer that answers each with a success or a
\* failure, announces "frame capture done", and sends a command the client
\* has no handler for.
CacheVideos == {"v1"}
UnknownCommand == Cmd("hello", "none")
CachePushes ==
    {Datagram("peer", UnknownCommand), Datagram("peer", PingCommand)}
      \cup {Datagram("peer", Resp("frame capture done", st, "v1", st # "ok")) :
               st \in {"ok", "failed"}}

RequestInformation == request_information
RequestAllInformation == request_all_information
RequestPlayerState == \E uuid \in CacheVideos : request_player_state(uuid)
FrameCapture == \E uuid \in CacheVideos : frame_capture(uuid)
CachePush == PeerPush(CachePushes)

CacheNext ==
    \/ RequestInformation
    \/ RequestAllInformation
    \/ RequestPlayerState
    \/ FrameCapture
    \/ ReceiverBind
    \/ ReceiverStep
    \/ ReceiverExit
    \/ PeerTake
    \/ CachePush

CacheSpec == Init /\ [][CacheNext]_vars

\* ------------------------------------------------------------- SelSpec: the selections
\* select_localizations on either video, against a peer that answers each
\* with a success or a failure, and that may also send a failure that
\* carries no cause.
SelPushes == {Datagram("peer", Resp("select localizations", "failed", "v1", FALSE))}
Select == \E uuid \in Videos, ids \in IdLists : select_localizations(uuid, ids)
SelPush == PeerPushOn(socket, MaxLocQueue, SelPushes)

SelNext ==
    \/ Select
    \/ select_localizations_return
    \/ ReceiverBind
    \/ ReceiverStep
    \/ ReceiverExit
    \/ LocPeerTake
    \/ SelPush

SelSpec == Init /\ [][SelNext]_vars

\* ------------------------------------------------------------- steps, as the claims name them
Last(q) == q[Len(q)]

\* The receive loop takes datagram d from the socket and runs an iteration on it.
Delivered(d) ==
    /\ rpc = "loop" /\ ok /\ rxq # <<>>
    /\ Head(rxq) = d
    /\ rxq' = Tail(rxq)

\* The receive loop decodes the oldest datagram and publishes its envelope.
Processing == rpc = "loop" /\ ok /\ rxq # <<>> /\ rxq' = Tail(rxq)
                 /\ Head(rxq).host = "peer" /\ Head(rxq).wf

\* A datagram is handed to the transport.
Handed(m) == sent' = Append(sent, m)
HandedCommand(name) ==
    /\ Len(sent') = Len(sent) + 1
    /\ Last(sent').key = "command" /\ Last(sent').name = name

Get(d, k) == IF k \in DOMAIN d THEN d[k] ELSE "absent"
StateOf(uuid) == Get(video_open_state, uuid)

\* ------------------------------------------------------------- C1
\* C1: when open(U, url) ends (its command was handed to the transport by
\* the step before), the open-state map holds state[U] = OPENING.
C1_OpenSetsOpening ==
    [][\A u \in Videos :
         (cpc.op = "open" /\ cpc.uuid = u /\ cpc' = Idle)
            => Get(video_open_state', u) = "OPENING"]_vars

\* ------------------------------------------------------------- C2
\* C2: processing "open done" with status ok and uuid U sets state[U] = OPEN
\* and leaves every other video's state as it was; "open done" with any other
\* status leaves the whole map as it was.
C2_OpenDone ==
    [][(Processing /\ Head(rxq).msg.key = "response"
          /\ Head(rxq).msg.name = "open done")
        => LET r == Head(rxq).msg IN
           IF r.status = "ok" /\ r.uuid # "none"
           THEN /\ Get(video_open_state', r.uuid) = "OPEN"
                /\ \A v \in Videos \ {r.uuid} :
                      Get(video_open_state', v) = Get(video_open_state, v)
           ELSE video_open_state' = video_open_state]_vars

\* An "open done" for the closed v1 is about to be processed while v2 is open.
C2_Witness ==
    /\ rpc = "loop" /\ ok /\ rxq # <<>>
    /\ Head(rxq) = Datagram("peer", Resp("open done", "ok", "v1", FALSE))
    /\ StateOf("v1") = "CLOSED" /\ StateOf("v2") = "OPEN"

\* ------------------------------------------------------------- C3
\* C3: connect(port) sets connected = false and sends exactly
\* {command: "connect", port: port}; connected becomes true only by
\* processing {response: "connect", status: "ok"}; a connect response with
\* any other status leaves connected as it was (false, after a connect).
C3_Connect ==
    [][/\ HandedCommand("connect")
            => /\ connected' = FALSE
               /\ \E port \in Ports :
                     Last(sent') = [Cmd("connect", "none") EXCEPT !.port = port]
       /\ (connected' /\ ~connected)
            => /\ Processing
               /\ Head(rxq).msg.key = "response"
               /\ Head(rxq).msg.name = "connect"
               /\ Head(rxq).msg.status = "ok"
       /\ (Processing /\ Head(rxq).msg.key = "response"
             /\ Head(rxq).msg.name = "connect" /\ Head(rxq).msg.status # "ok")
            => connected' = connected]_vars

\* A failed connect response is about to be processed while connected is
\* false, with a successful one behind it.
C3_Witness ==
    /\ rpc = "loop" /\ ok /\ rxq # <<>>
    /\ Head(rxq) = Datagram("peer", Resp("connect", "failed", "none", TRUE))
    /\ ~connected
    /\ Len(rxq) = 2 /\ rxq[2] = Datagram("peer", Resp("connect", "ok", "none", FALSE))

\* ------------------------------------------------------------- C4
\* The receive loop processes a response to add / remove / update / clear
\* localizations.
ProcessingLoc ==
    /\ Processing
    /\ Head(rxq).msg.key = "response"
    /\ Head(rxq).msg.name \in LocResponses
\* ... a failure response, which carries its cause
ProcessingLocFailure ==
    /\ ProcessingLoc
    /\ Head(rxq).msg.status \notin {"ok", "none"}
    /\ Head(rxq).msg.cause
\* ... a success response
ProcessingLocSuccess == ProcessingLoc /\ Head(rxq).msg.status = "ok"

\* One mutation is outstanding, its call has returned and its response is
\* the next datagram.
OnlyOutstanding ==
    /\ cpc = Idle
    /\ \A i \in 1..Len(sent) : sent[i].key # "command"
    /\ \A i \in 2..Len(rxq) : ~(rxq[i].wf /\ rxq[i].msg.key = "response")

\* A step of the calling context inside add / remove / update / clear
\* localizations: the send, or the optimistic write that ends the call.
LocCallStep ==
    \/ \E n \in LocResponses : HandedCommand(n)
    \/ cpc.op \in {"add", "remove", "update", "clear"} /\ cpc' = Idle

\* C4: with one mutation outstanding, processing its failure response makes
\* uncommitted exactly the committed map, which is the committed map of
\* before the call: neither the call nor the revert changes it.
C4_RevertRestores ==
    [][/\ (OnlyOutstanding /\ ProcessingLocFailure)
            => /\ uncommitted_localizations' = localizations
               /\ localizations' = localizations
       /\ LocCallStep => localizations' = localizations]_vars

\* The failure response to an add of l1 and l2 is about to be processed;
\* both are in uncommitted and neither is committed.
C4_Witness ==
    /\ rpc = "loop" /\ ok /\ OnlyOutstanding
    /\ rxq = <<Datagram("peer", Resp("add localizations", "failed", LocVideo, TRUE))>>
    /\ DOMAIN uncommitted_localizations = {"l1", "l2"}
    /\ DOMAIN localizations = {}

\* ------------------------------------------------------------- C5
\* C5: over any sequence of add / remove / update / clear localizations
\* calls followed by a failure response, the committed map stays what it was
\* before the first call: no step of a call changes it, and the revert does not.
C5_CommittedKept ==
    [][(LocCallStep \/ ProcessingLocFailure) => localizations' = localizations]_vars

\* After an update of the committed l1 and a further call, the failure
\* response to the update is about to be processed.
C5_Witness ==
    /\ rpc = "loop" /\ ok /\ cpc = Idle
    /\ rxq = <<Datagram("peer", Resp("update localizations", "failed", LocVideo, TRUE))>>
    /\ Len(sent) = 1 /\ sent[1].name = "remove localizations"
    /\ localizations = [k \in {"l1"} |-> Localization("l1", "a")]
    /\ uncommitted_localizations = EmptyDict

\* ------------------------------------------------------------- C6
\* C6: after a success response to add / remove / update / clear
\* localizations is processed, the committed map is what the uncommitted map
\* was just before; what was removed or cleared is no longer committed.
C6_CommitEqualsUncommitted ==
    [][ProcessingLocSuccess => localizations' = uncommitted_localizations]_vars

\* ------------------------------------------------------------- C7
\* C7: a UDPServer.receive(timeout) to which no datagram arrives ends by
\* raising a timeout condition (TimeoutError or Timeout), which is not the
\* exception of a datagram that fails to decode nor any other error.
C7_TimeoutRaised ==
    uresult.timed_out => uresult.raised \in {"TimeoutError", "Timeout"}

\* ------------------------------------------------------------- C8
\* A command of the client is outstanding: it is on its way to the peer, or
\* its response waits in the receive socket.
Outstanding ==
    \/ \E i \in 1..Len(sent) : sent[i].key = "command"
    \/ \E i \in 1..Len(rxq) : rxq[i].wf /\ rxq[i].msg.key = "response"
PingWaiting ==
    \E i \in 1..Len(rxq) : rxq[i] = Datagram("peer", PingCommand)
PingReplied ==
    \E i \in 1..Len(sent) : sent[i] = PingResponse

\* C8: a ping that arrives while commands are outstanding is eventually
\* answered with {response: "ping", status: "ok"}.
C8_PingAnswered == [](Outstanding /\ PingWaiting => <>PingReplied)

\* ------------------------------------------------------------- C9
\* C9: handling a ping command changes no field of the state mirror; its
\* only effect is that {response: "ping", status: "ok"} is sent.
C9_PingFrame ==
    [][Delivered(Datagram("peer", PingCommand))
         => /\ UNCHANGED mirror
            /\ Handed(PingResponse)
            /\ UNCHANGED <<ok, rpc, caller, sync>>]_vars

\* A ping is about to be handled in a state whose mirror is not the initial one.
C9_Witness ==
    /\ rpc = "loop" /\ ok /\ rxq # <<>>
    /\ Head(rxq) = Datagram("peer", PingCommand)
    /\ connected
    /\ StateOf("v1") = "CLOSED" /\ StateOf("v2") = "OPEN"
    /\ Len(sent) = 1 /\ sent[1].key = "command"

\* ------------------------------------------------------------- C10
\* C10: a datagram that does not decode is dropped and the receive loop
\* keeps running.
C10_GarbageKeepsLoop ==
    [][Delivered(Garbage("peer")) => ok' /\ rpc' = "loop"]_vars

\* ------------------------------------------------------------- C11
\* C11: a command whose name has no handler (any name other than "ping")
\* causes no reply, changes no field of the state mirror and does not stop
\* the receive loop.
C11_UnknownCommandIgnored ==
    [][Delivered(Datagram("peer", UnknownCommand))
         => /\ UNCHANGED mirror
            /\ UNCHANGED sent
            /\ ok' /\ rpc' = "loop"]_vars

\* ------------------------------------------------------------- C12
\* C12: processing {response: "close", status: "ok", uuid: U} when state[U]
\* is already CLOSED leaves state[U] = CLOSED and changes no other field of
\* the state mirror: a second successful close response changes nothing.
C12_CloseIdempotent ==
    [][\A u \in Videos :
         (Delivered(Datagram("peer", Resp("close", "ok", u, FALSE)))
            /\ StateOf(u) = "CLOSED")
         => /\ Get(video_open_state', u) = "CLOSED"
            /\ UNCHANGED mirror]_vars

\* A second successful close response for the closed v1 is about to be
\* processed, while v2 is open.
C12_Witness ==
    /\ rpc = "loop" /\ ok /\ rxq # <<>>
    /\ Head(rxq) = Datagram("peer", Resp("close", "ok", "v1", FALSE))
    /\ StateOf("v1") = "CLOSED" /\ StateOf("v2") = "OPEN"

\* ------------------------------------------------------------- C13
\* A step of the calling context inside open(u, url).
OpenCallStep(u) ==
    \/ HandedCommand("open") /\ Last(sent').uuid = u
    \/ cpc.op = "open" /\ cpc.uuid = u /\ cpc' = Idle
\* The receive loop processes a successful response of the given name for video u.
ProcessingOk(name, u) ==
    /\ Processing
    /\ Head(rxq).msg.key = "response" /\ Head(rxq).msg.name = name
    /\ Head(rxq).msg.status = "ok" /\ Head(rxq).msg.uuid = u

\* C13: the open state of a video changes only along the edges of the
\* lifecycle: to OPENING by open, from OPENING to OPEN by a successful
\* "open done", to CLOSED by a successful close response; so no other step
\* (issuing close, a failed close or open response) changes the map, and a
\* video does not become OPEN unless it was OPENING.
C13_Lifecycle ==
    [][\A u \in Videos :
         Get(video_open_state', u) # Get(video_open_state, u)
         => \/ Get(video_open_state', u) = "OPENING" /\ OpenCallStep(u)
            \/ /\ Get(video_open_state, u) = "OPENING"
               /\ Get(video_open_state', u) = "OPEN"
               /\ ProcessingOk("open done", u)
            \/ Get(video_open_state', u) = "CLOSED" /\ ProcessingOk("close", u)]_vars

\* ------------------------------------------------------------- C14
\* C14: request_player_state(U) leaves the player-state map without an
\* entry for U; an entry for U appears only when a successful "request
\* player state" response for U is processed, and processing one installs
\* the entry; a failed response leaves the map as it was.
C14_PlayerStateFresh ==
    [][\A u \in Videos :
         /\ (HandedCommand("request player state") /\ Last(sent').uuid = u)
              => u \notin DOMAIN video_player_state'
         /\ (u \in DOMAIN video_player_state' /\ u \notin DOMAIN video_player_state)
              => ProcessingOk("request player state", u)
         /\ ProcessingOk("request player state", u)
              => u \in DOMAIN video_player_state'
         /\ (Processing /\ Head(rxq).msg.name = "request player state"
               /\ Head(rxq).msg.status # "ok")
              => video_player_state' = video_player_state]_vars

\* ------------------------------------------------------------- C15
\* The receive loop processes a response of the given name, successful or not.
ProcessingResponse(name, success) ==
    /\ Processing
    /\ Head(rxq).msg.key = "response" /\ Head(rxq).msg.name = name
    /\ (Head(rxq).msg.status = "ok") = success

\* C15: request_information and request_all_information leave their cache
\* empty when the command is handed to the transport; processing a
\* successful response replaces the cache by the decoded value(s), so it is
\* no longer empty; processing a failure response leaves it empty.
C15_InfoCaches ==
    [][/\ HandedCommand("request information") => focused_video_info' = "none"
       /\ HandedCommand("request all information") => all_video_info' = "none"
       /\ ProcessingResponse("request information", TRUE)
            => focused_video_info' # "none"
       /\ ProcessingResponse("request all information", TRUE)
            => all_video_info' # "none"
       /\ ProcessingResponse("request information", FALSE)
            => focused_video_info' = focused_video_info
       /\ ProcessingResponse("request all information", FALSE)
            => all_video_info' = all_video_info]_vars

\* ------------------------------------------------------------- C16
\* C16: the frame-capture list is append-only: processing a successful
\* "frame capture done" response appends exactly one entry, and no other
\* step adds, removes or changes an entry.
C16_FrameCapturesAppendOnly ==
    [][IF \E u \in Videos \cup {"none"} : ProcessingOk("frame capture done", u)
       THEN /\ Len(frame_captures') = Len(frame_captures) + 1
            /\ SubSeq(frame_captures', 1, Len(frame_captures)) = frame_captures
       ELSE frame_captures' = frame_captures]_vars

\* ------------------------------------------------------------- C17
\* select_localizations ends: the step after its send.
SelectReturn == cpc.op = "select" /\ cpc' = Idle

\* The selection a map holds for video v: a one-element sequence, or the
\* empty sequence when the map has no entry for v.
SelectionOf(d, v) == IF v \in DOMAIN d THEN <<d[v]>> ELSE <<>>

\* C17: select_localizations(V, uuids) makes the selection of V exactly
\* uuids, whatever it was, and leaves the other videos' selections; no other
\* step, and so neither a success nor a failure "select localizations"
\* response, changes any selection.
C17_SelectOverwrites ==
    [][IF SelectReturn
       THEN /\ SelectionOf(selected_localizations', cpc.uuid) = <<cpc.ids>>
            /\ \A v \in Videos \ {cpc.uuid} :
                  SelectionOf(selected_localizations', v)
                     = SelectionOf(selected_localizations, v)
       ELSE selected_localizations' = selected_localizations]_vars

\* select_localizations(v1, [l2]) is about to end while v1 has the selection
\* [l1] and v2 the selection [l1, l2], and the failure response to the
\* earlier selection on v1 waits to be processed.
C17_Witness ==
    /\ cpc.op = "select" /\ cpc.uuid = "v1" /\ cpc.ids = <<"l2">>
    /\ SelectionOf(selected_localizations, "v1") = << <<"l1">> >>
    /\ SelectionOf(selected_localizations, "v2") = << <<"l1", "l2">> >>
    /\ rpc = "loop" /\ ok
    /\ rxq = <<Datagram("peer", Resp("select localizations", "failed", "v1", TRUE))>>

\* ------------------------------------------------------------- C18
\* C18: for every value x of VideoInfo, VideoPlayerState, FrameCapture and
\* Localization, with the optional color present or absent,
\* decode(encode(x)) = x.
C18_RoundTrip == codec.stage = "decoded" => codec.back = codec.value

\* A Localization with a color and a nonzero duration has gone through
\* encode and decode.
C18_Witness ==
    /\ codec.stage = "decoded" /\ codec.kind = "Localization"
    /\ codec.value.color = "#ff0000" /\ codec.value.duration_millis = 40
    /\ "color" \in DOMAIN codec.wire

\* ------------------------------------------------------------- C19
\* C19: once the liveness flag is cleared, the receive loop terminates and
\* the socket is closed, also when no further datagram arrives.
C19_StopTerminates ==
    /\ [](~ok => <>(rpc = "done"))
    /\ [][(rpc # "done" /\ rpc' = "done") => socket' = "none"]_vars

\* ------------------------------------------------------------- C20
\* A bind of the receive socket fails.
BindFails == socket = "none" /\ socket' = "unbound"

\* C20: when binding the receive socket fails, the owner of the transport
\* gets the failure as an error.
C20_BindFailureSurfaced == [][BindFails => raised' = "OSError"]_vars

\* ------------------------------------------------------------- C21
\* UDPServer.receive ends: it returns an envelope or raises.
UReceiveEnds == cpc.op = "receive" /\ cpc' = Idle

\* C21: the socket of the synchronous transport is closed when the receive
\* that ends a request ends, on every path (reply, timeout, decode error),
\* so the server holds no socket between two requests.
C21_SocketClosedAfterRequest == [][UReceiveEnds => usocket' = "none"]_vars

\* ------------------------------------------------------------- C22
\* C22: a synchronous receive that returns (raises nothing) returns an
\* envelope that carries a response key, never a command of the peer or an
\* envelope with neither key.
C22_ReceiveReturnsResponse ==
    [][(UReceiveEnds /\ uresult'.raised = "none")
         => uresult'.data.key = "response"]_vars

\* ------------------------------------------------------------- C23
\* C23: a commit or a revert (the handling of a success or failure response
\* to add / remove / update / clear localizations) never runs while the
\* optimistic write of a call is partially applied.
C23_ApplyAtomic ==
    [][(ProcessingLocSuccess \/ ProcessingLocFailure) => cpc.op \notin InLoop]_vars

\* ------------------------------------------------------------- C24
\* The uncommitted map holds localization e (as the command carries it).
Written(d, e) == e.uuid \in DOMAIN d /\ encode_localization(d[e.uuid]) = e

\* C24: when an add / remove / update / clear localizations command is
\* handed to the transport, its optimistic write is already in the
\* uncommitted map, so the response cannot be processed before the write.
C24_WriteBeforeSend ==
    [][/\ (HandedCommand("add localizations") \/ HandedCommand("update localizations"))
            => \A i \in 1..Len(Last(sent').locs) :
                  Written(uncommitted_localizations', Last(sent').locs[i])
       /\ HandedCommand("remove localizations")
            => \A i \in 1..Len(Last(sent').ids) :
                  Last(sent').ids[i] \notin DOMAIN uncommitted_localizations'
       /\ HandedCommand("clear localizations")
            => uncommitted_localizations' = EmptyDict]_vars

\* ------------------------------------------------------------- C25
\* C25: whenever no localization mutation is outstanding, the uncommitted
\* map equals the committed map.
C25_UncommittedIsCopy ==
    NoneOutstanding => uncommitted_localizations = localizations

\* ------------------------------------------------------------- C26
\* The receive loop processes a failure response that carries no cause, to
\* a handler that reads the cause (every handler but those of "connect" and
\* "open").
ProcessingCauseless ==
    /\ Processing
    /\ Head(rxq).msg.key = "response"
    /\ Head(rxq).msg.name \notin {"connect", "open"}
    /\ Head(rxq).msg.status \notin {"ok", "none"}
    /\ ~Head(rxq).msg.cause

\* C26: a well-formed response that lacks a field its handler needs is
\* dropped: the state mirror is unchanged and the receive loop goes on.
C26_MissingFieldDropped ==
    [][ProcessingCauseless => /\ UNCHANGED mirror
                              /\ ok' /\ rpc' = "loop"]_vars

\* ------------------------------------------------------------- C27
\* C27: after the receive loop has ended and closed its socket, the server
\* holds no socket.
C27_NoSocketAfterLoop == rpc = "done" => socket = "none"

\* ------------------------------------------------------------- C28
\* Maps d and e agree on the localization id.
SameEntry(d, e, id) ==
    /\ (id \in DOMAIN d) = (id \in DOMAIN e)
    /\ id \in DOMAIN d => d[id] = e[id]
\* The step leaves the localizations of every video but v as they were, in
\* both maps.
OthersUntouched(v) ==
    \A id \in LocIds :
       VideoOf(id) # v
       => /\ SameEntry(uncommitted_localizations, uncommitted_localizations', id)
          /\ SameEntry(localizations, localizations', id)

\* C28: the optimistic write of a mutation addressed to video V, and the
\* commit or revert on its response, leave the committed and uncommitted
\* localizations of every other video unchanged.
C28_OtherVideosUntouched ==
    [][\A v \in Videos :
         /\ (cpc.op \in {"add", "remove", "update", "clear"} /\ cpc.uuid = v
               /\ cpc' = Idle)
              => OthersUntouched(v)
         /\ (ProcessingLoc /\ Head(rxq).msg.uuid = v) => OthersUntouched(v)]_vars

\* ------------------------------------------------------------- C29
\* C29: for every number of milliseconds m, Duration.ofMillis(m).toMillis()
\* is m: a duration read from the wire has the length the wire gave, and is
\* written back as that same number of milliseconds.
C29_DurationRoundTrip ==
    /\ codec.stage \in {"deserialized", "serialized"}
         => /\ total_milliseconds(codec.value) = int_str(codec.wire)
            /\ Duration_toMillis(codec.value) = int_str(codec.wire)
    /\ codec.stage = "serialized" => codec.back = codec.wire

\* ------------------------------------------------------------- C30
\* The localizations kept on the video the peer refuses.
Refused == {id \in LocIds : VideoOf(id) = RejectedVideo}

\* C30: when the failure response to an add or update of a localization that
\* was never acknowledged has been processed, that localization is not in
\* the committed map, whatever other calls were outstanding.
C30_FailedNeverCommitted ==
    [][(ProcessingLocFailure /\ Head(rxq).msg.uuid = RejectedVideo)
         => \A id \in Refused : id \notin DOMAIN localizations']_vars

\* ------------------------------------------------------------- C31
\* A context assigns a new socket object to _socket ...
GetterCreates ==
    \/ rpc = "getter checked" /\ rpc' = "getter created"
    \/ cpc.op = "send checked" /\ cpc'.op = "send created"
\* ... and a context calls bind.
GetterBinds ==
    \/ rpc = "getter created" /\ rpc' # "getter created"
    \/ cpc.op = "send created" /\ cpc' = Idle

\* C31: a socket is created only while _socket holds none, and bind is
\* called only on a socket that is not bound yet and while no other context
\* is about to bind: the receiver thread and a sender never both create a
\* socket for the same missing one, and never both attempt the bind.
C31_OneSocketOneBind ==
    [][/\ GetterCreates => socket = "none"
       /\ GetterBinds => /\ socket = "unbound"
                         /\ ~(rpc = "getter created" /\ cpc.op = "send created")]_vars

====
